---- MODULE Spec2Model ----
(***************************************************************************)
(* OFDM demodulator of software-modem (src/src/ofdm/demodulator.rs) as a   *)
(* state machine, with the collaborators it calls: the subcarrier layout   *)
(* (OFDMConstants), the QAM demapper (QAMModem), the real-to-complex       *)
(* transform engine (realfft) and, for the round trip, the modulator.      *)
(*                                                                         *)
(* Numbers.  The transform of size 2N uses the twiddles cos/sin(pi*m/N).   *)
(* For N in {1,2,4} they lie in Z[sqrt 2]/2 and for N in {3,6} in          *)
(* Z[sqrt 3]/2, so the model computes in exact arithmetic: a number is a   *)
(* pair <<a, b>> denoting a + b*sqrt(d), d = Root(N).  A time sample is in *)
(* whole units; a frequency bin is stored in half units (the pair denotes  *)
(* (a + b*sqrt d)/2), because the tables hold 2*cos and 2*sin.             *)
(*                                                                         *)
(* f32.  Inside its finite range f32 arithmetic commutes with a factor     *)
(* 2^k, so the sample unit of these configurations is left open and is     *)
(* taken as 2^128 / F32MaxUnits: a value of magnitude F32MaxUnits or more  *)
(* is an f32 infinity.  The 24-bit rounding of f32 and its subnormal range *)
(* are not modelled.                                                       *)
(*                                                                         *)
(* The doc test of demodulate_symbol_from_buffer (64 subcarriers) is run   *)
(* in decimal fixed point (d = 1): samples in tenths, twiddles in          *)
(* thousandths, bins in twentieths; f32 overflow is out of reach there.    *)
(***************************************************************************)
EXTENDS Integers, Sequences, FiniteSets, TLC

VARIABLES
    config,      \* OFDMDemodulatorConfig handed to OFDMDemodulator::new
    demod,       \* the OFDMDemodulator instance: fft, qam_modem, constants
    phase,       \* "config" | "idle" | "returned"
    calls,       \* calls made on the instance so far
    call,        \* the last call of demodulate_symbol_from_buffer: input, locals, outcome
    build,       \* overflow checks of the build: TRUE (debug) or FALSE (release)
    symlen,      \* the last answer of get_symbol_length
    thr,         \* per thread: the call in progress on that thread's instance
    heap         \* working buffers of the calls in progress, by allocation

vars == <<config, demod, phase, calls, call, build, symlen, thr, heap>>

----------------------------------------------------------------------------
(* Bounds of the model *)

MaxCyclicPrefix == 1
MaxPilotEvery == 3
MaxLayoutSubcarriers == 9
MaxGain == 2
MaxExtraLength == 1
MaxSample == 1
MaxCalls == 2

\* Transform sizes the exact arithmetic covers (2N samples, N+1 bins).
SubcarrierChoices == {1, 2, 3, 4, 6}

QAMOrders == {"QAM4", "QAM16"}

\* Payload bytes fed to the modulator: inner points only (0x00, 0x48 'H'),
\* one outer component (0x21 '!'), corner points (0x6F 'o', 0xFF).
DataBytes == {0, 72, 33, 111, 255}

----------------------------------------------------------------------------
(* Exact arithmetic in Z[sqrt d], d in {2, 3}; fixed point for d = 1 *)

\* num_subcarriers of the doc test (demodulator.rs line 59).
DocTestSubcarriers == 64

Root(N) == IF N = DocTestSubcarriers THEN 1 ELSE IF N % 3 = 0 THEN 3 ELSE 2

Zero == <<0, 0>>
Whole(n) == <<n, 0>>
Add(x, y) == <<x[1] + y[1], x[2] + y[2]>>
Sub(x, y) == <<x[1] - y[1], x[2] - y[2]>>
Neg(x) == <<0 - x[1], 0 - x[2]>>
Scale(n, x) == <<n * x[1], n * x[2]>>
Mul(x, y, d) == <<x[1] * y[1] + d * x[2] * y[2], x[1] * y[2] + x[2] * y[1]>>

\* a > n*sqrt(d) for naturals a, n: the continued-fraction descent, which
\* never squares (1 < sqrt d < 2; a = n*sqrt(d) only for a = n = 0).
RECURSIVE RootGt(_, _, _)
RootGt(a, n, d) ==
    IF n = 0 THEN a > 0
    ELSE IF a < n THEN FALSE
    ELSE IF a >= 2 * n THEN TRUE
    ELSE IF a = n THEN FALSE
    ELSE ~RootGt(n * (d - 1) - (a - n), a - n, d)

IsPos(x, d) ==
    \/ x[1] >= 0 /\ x[2] >= 0 /\ (x[1] > 0 \/ x[2] > 0)
    \/ x[1] > 0 /\ x[2] < 0 /\ RootGt(x[1], 0 - x[2], d)
    \/ x[1] < 0 /\ x[2] > 0 /\ ~RootGt(0 - x[1], x[2], d)

IsNeg(x, d) == IsPos(Neg(x), d)
Gt(x, y, d) == IsPos(Sub(x, y), d)

\* The sum of s[lo..hi], by halves.
RECURSIVE SumRange(_, _, _)
SumRange(s, lo, hi) ==
    IF lo > hi THEN Zero
    ELSE IF lo = hi THEN s[lo]
    ELSE LET mid == (lo + hi) \div 2
         IN Add(SumRange(s, lo, mid), SumRange(s, mid + 1, hi))
SumSeq(s) == SumRange(s, 1, Len(s))

\* Complex32::norm() squared: re^2 + im^2.
NormSqr(c, d) == Add(Mul(c.re, c.re, d), Mul(c.im, c.im, d))

\* The largest of acc and the elements of s; s[lo..hi] by halves.
Larger(x, y, d) == IF Gt(x, y, d) THEN x ELSE y
RECURSIVE MaxRange(_, _, _, _)
MaxRange(s, lo, hi, d) ==
    IF lo = hi THEN s[lo]
    ELSE LET mid == (lo + hi) \div 2
         IN Larger(MaxRange(s, mid + 1, hi, d), MaxRange(s, lo, mid, d), d)
MaxOf(s, acc, d) ==
    IF s = <<>> THEN acc ELSE Larger(MaxRange(s, 1, Len(s), d), acc, d)

----------------------------------------------------------------------------
(* The transform engine: realfft's RealToComplex / ComplexToReal, unnormalised *)

\* 2*cos of m eighths of a turn (d = 2) and of m twelfths of a turn (d = 3).
Cos2Table45 ==
    << <<2, 0>>, <<0, 1>>, <<0, 0>>, <<0, -1>>,
       <<-2, 0>>, <<0, -1>>, <<0, 0>>, <<0, 1>> >>
Cos2Table30 ==
    << <<2, 0>>, <<0, 1>>, <<1, 0>>, <<0, 0>>, <<-1, 0>>, <<0, -1>>,
       <<-2, 0>>, <<0, -1>>, <<-1, 0>>, <<0, 0>>, <<1, 0>>, <<0, 1>> >>

\* 2*cos of m 128ths of a turn in fixed point: 1000*cos, rounded.
Cos2Table128 ==
    <<
       <<1000, 0>>, <<999, 0>>, <<995, 0>>, <<989, 0>>, <<981, 0>>, <<970, 0>>, <<957, 0>>, <<942, 0>>,
       <<924, 0>>, <<904, 0>>, <<882, 0>>, <<858, 0>>, <<831, 0>>, <<803, 0>>, <<773, 0>>, <<741, 0>>,
       <<707, 0>>, <<672, 0>>, <<634, 0>>, <<596, 0>>, <<556, 0>>, <<514, 0>>, <<471, 0>>, <<428, 0>>,
       <<383, 0>>, <<337, 0>>, <<290, 0>>, <<243, 0>>, <<195, 0>>, <<147, 0>>, <<98, 0>>, <<49, 0>>,
       <<0, 0>>, <<-49, 0>>, <<-98, 0>>, <<-147, 0>>, <<-195, 0>>, <<-243, 0>>, <<-290, 0>>, <<-337, 0>>,
       <<-383, 0>>, <<-428, 0>>, <<-471, 0>>, <<-514, 0>>, <<-556, 0>>, <<-596, 0>>, <<-634, 0>>, <<-672, 0>>,
       <<-707, 0>>, <<-741, 0>>, <<-773, 0>>, <<-803, 0>>, <<-831, 0>>, <<-858, 0>>, <<-882, 0>>, <<-904, 0>>,
       <<-924, 0>>, <<-942, 0>>, <<-957, 0>>, <<-970, 0>>, <<-981, 0>>, <<-989, 0>>, <<-995, 0>>, <<-999, 0>>,
       <<-1000, 0>>, <<-999, 0>>, <<-995, 0>>, <<-989, 0>>, <<-981, 0>>, <<-970, 0>>, <<-957, 0>>, <<-942, 0>>,
       <<-924, 0>>, <<-904, 0>>, <<-882, 0>>, <<-858, 0>>, <<-831, 0>>, <<-803, 0>>, <<-773, 0>>, <<-741, 0>>,
       <<-707, 0>>, <<-672, 0>>, <<-634, 0>>, <<-596, 0>>, <<-556, 0>>, <<-514, 0>>, <<-471, 0>>, <<-428, 0>>,
       <<-383, 0>>, <<-337, 0>>, <<-290, 0>>, <<-243, 0>>, <<-195, 0>>, <<-147, 0>>, <<-98, 0>>, <<-49, 0>>,
       <<0, 0>>, <<49, 0>>, <<98, 0>>, <<147, 0>>, <<195, 0>>, <<243, 0>>, <<290, 0>>, <<337, 0>>,
       <<383, 0>>, <<428, 0>>, <<471, 0>>, <<514, 0>>, <<556, 0>>, <<596, 0>>, <<634, 0>>, <<672, 0>>,
       <<707, 0>>, <<741, 0>>, <<773, 0>>, <<803, 0>>, <<831, 0>>, <<858, 0>>, <<882, 0>>, <<904, 0>>,
       <<924, 0>>, <<942, 0>>, <<957, 0>>, <<970, 0>>, <<981, 0>>, <<989, 0>>, <<995, 0>>, <<999, 0>>
    >>
\* What the fixed-point table multiplies 2*cos by.
TwiddleScale == Cos2Table128[1][1] \div 2

\* 2*cos(pi*m/N) and 2*sin(pi*m/N), N in SubcarrierChoices or 64.
Cos2(m, N) ==
    IF Root(N) = 1 THEN Cos2Table128[(m % 128) + 1]
    ELSE IF Root(N) = 3 THEN Cos2Table30[((m * (6 \div N)) % 12) + 1]
    ELSE Cos2Table45[((m * (4 \div N)) % 8) + 1]
Sin2(m, N) ==
    IF Root(N) = 1 THEN Cos2Table128[((m + 96) % 128) + 1]
    ELSE IF Root(N) = 3 THEN Cos2Table30[((m * (6 \div N) + 9) % 12) + 1]
    ELSE Cos2Table45[((m * (4 \div N) + 6) % 8) + 1]

\* A sum of sample * twiddle as a bin component in half units: the sum
\* itself in exact arithmetic, the sum over the twiddle scale in fixed point.
BinComponent(sum, d) == IF d = 1 THEN <<sum[1] \div TwiddleScale, 0>> ELSE sum

\* RealToComplex::process on 2N samples: bin k = sum x[n]*exp(-i*pi*k*n/N),
\* k = 0..N, stored in half units.
ForwardBin(x, k, N) ==
    LET d == Root(N)
    IN [re |-> BinComponent(
                  SumSeq([n \in 1..(2 * N) |-> Mul(x[n], Cos2(k * (n - 1), N), d)]), d),
        im |-> BinComponent(
                  Neg(SumSeq([n \in 1..(2 * N) |-> Mul(x[n], Sin2(k * (n - 1), N), d)])), d)]
ForwardTransform(x, N) == [k \in 1..(N + 1) |-> ForwardBin(x, k - 1, N)]

\* ComplexToReal::process on N+1 integer bins with bins 0 and N real:
\* sample n = X[0] + (-1)^n X[N] + sum_{0<k<N} 2*Re(X[k]*exp(i*pi*k*n/N)).
InverseSample(X, n, N) ==
    LET d == Root(N)
    IN Add(Add(Whole(X[1].re), Whole(IF n % 2 = 0 THEN X[N + 1].re ELSE 0 - X[N + 1].re)),
           SumSeq([k \in 1..(N - 1) |->
               Sub(Scale(X[k + 1].re, Cos2(k * n, N)), Scale(X[k + 1].im, Sin2(k * n, N)))]))
InverseTransform(X, N) == [n \in 1..(2 * N) |-> InverseSample(X, n - 1, N)]

----------------------------------------------------------------------------
(* OFDMConstants::new: the subcarrier layout *)

\* The layout the modulator and the demodulator share.  OFDMConstants is not
\* among the sources; the layout is read off the test vector of the doc test
\* (64 subcarriers, a pilot every 4th), whose spectrum is zero at bins 0 and
\* 64, holds the pilot value 1 at bins 4, 8, .., 60 and a constellation point
\* at every other bin 1..63 (DocTestSpectrumAgrees below compares them bin by
\* bin).  For other configurations it is the same rule by extension.
IsPilotIndex(i, every) == i % every = 0
PilotSubcarrierIndices(num_subcarriers, every) ==
    SelectSeq([i \in 1..(num_subcarriers - 1) |-> i], LAMBDA i : IsPilotIndex(i, every))
DataSubcarrierIndices(num_subcarriers, every) ==
    SelectSeq([i \in 1..(num_subcarriers - 1) |-> i], LAMBDA i : ~IsPilotIndex(i, every))

OFDMConstantsNew(num_subcarriers, pilot_subcarrier_every, cyclic_prefix_length, qam_order, bits_per_symbol) ==
    [num_subcarriers |-> num_subcarriers,
     pilot_subcarrier_every |-> pilot_subcarrier_every,
     cyclic_prefix_length |-> cyclic_prefix_length,
     qam_order |-> qam_order,
     bits_per_symbol |-> bits_per_symbol,
     pilot_subcarrier_indices |-> PilotSubcarrierIndices(num_subcarriers, pilot_subcarrier_every),
     data_subcarrier_indices |-> DataSubcarrierIndices(num_subcarriers, pilot_subcarrier_every)]

----------------------------------------------------------------------------
(* QAMModem: square constellations, most significant bits first *)

BitsPerSymbol(qam_order) == IF qam_order = "QAM16" THEN 4 ELSE 2

\* Byte b as 8 bits, most significant first.
ByteBits(b) == [i \in 1..8 |-> (b \div (2 ^ (8 - i))) % 2]
\* The concatenation of ss[lo..hi], by halves.
RECURSIVE ConcatRange(_, _, _)
ConcatRange(ss, lo, hi) ==
    IF lo > hi THEN <<>>
    ELSE IF lo = hi THEN ss[lo]
    ELSE LET mid == (lo + hi) \div 2
         IN ConcatRange(ss, lo, mid) \o ConcatRange(ss, mid + 1, hi)
Concat(ss) == ConcatRange(ss, 1, Len(ss))

BytesToBits(bytes) == Concat([i \in 1..Len(bytes) |-> ByteBits(bytes[i])])

\* The constellation point of one bit group.  16-QAM (from the doc test's
\* vector): bit 3 the sign of re, bit 2 the sign of im (1 = negative), bit 1
\* the level of re, bit 0 the level of im (1 = 3, 0 = 1).  4-QAM: the signs.
QamPoint(g, qam_order) ==
    IF qam_order = "QAM16"
    THEN [re |-> (IF g[1] = 1 THEN -1 ELSE 1) * (IF g[3] = 1 THEN 3 ELSE 1),
          im |-> (IF g[2] = 1 THEN -1 ELSE 1) * (IF g[4] = 1 THEN 3 ELSE 1)]
    ELSE [re |-> IF g[1] = 1 THEN -1 ELSE 1, im |-> IF g[2] = 1 THEN -1 ELSE 1]

\* QAMModem::modulate: one point per complete group of bits_per_symbol bits.
QamModulate(bytes, qam_order) ==
    LET bps == BitsPerSymbol(qam_order)
        bits == BytesToBits(bytes)
    IN [s \in 1..(Len(bits) \div bps) |->
            QamPoint([j \in 1..bps |-> bits[(s - 1) * bps + j]], qam_order)]

\* An equalised value is v.num * v.mul / sqrt(v.div2), with v.num in Z[sqrt d].
IsNegative(v, d) == IsNeg(v.num, d)
\* |value| > 2, the midpoint between the levels 1 and 3.
IsOuter(v, d) == Gt(Scale(v.mul * v.mul, Mul(v.num, v.num, d)), Scale(4, v.div2), d)

\* The bits of the grid point nearest to (re, im); a tie goes to the point
\* of the lower bit group.
QamDecide(re, im, qam_order, d) ==
    IF qam_order = "QAM16"
    THEN << IF IsNegative(re, d) THEN 1 ELSE 0, IF IsNegative(im, d) THEN 1 ELSE 0,
            IF IsOuter(re, d) THEN 1 ELSE 0, IF IsOuter(im, d) THEN 1 ELSE 0 >>
    ELSE << IF IsNegative(re, d) THEN 1 ELSE 0, IF IsNegative(im, d) THEN 1 ELSE 0 >>

BitsToByte(bits, at) ==
    LET bit(i) == IF at + i <= Len(bits) THEN bits[at + i] ELSE 0
    IN 128 * bit(1) + 64 * bit(2) + 32 * bit(3) + 16 * bit(4)
       + 8 * bit(5) + 4 * bit(6) + 2 * bit(7) + bit(8)

\* Number of whole bytes in nbits bits (the capacity rule: rounded down).
PackedLength(nbits) == nbits \div 8

\* QAMModem::demodulate: nearest-point decision per symbol, the bits packed
\* into whole bytes.
QamDemodulate(symbols, qam_order, d) ==
    LET bits == Concat([s \in 1..Len(symbols) |->
                    QamDecide(symbols[s].re, symbols[s].im, qam_order, d)])
    IN [b \in 1..PackedLength(Len(bits)) |-> BitsToByte(bits, 8 * (b - 1))]

----------------------------------------------------------------------------
(* Machine integers: u32 and usize values as <<high, low>> in base 2^16 *)

ToWide(n) == <<n \div 65536, n % 65536>>
WideAdd(x, y) ==
    LET low == x[2] + y[2]
    IN <<x[1] + y[1] + low \div 65536, low % 65536>>
\* The value kept by a u32, and whether the exact value fits one.
Wrap32(w) == <<w[1] % 65536, w[2]>>
Fits32(w) == w[1] < 65536

\* (2 * num_subcarriers + cyclic_prefix_length) as usize, computed in u32:
\* with overflow checks the call panics when the sum passes 2^32 - 1,
\* without them the sum wraps.
SymbolLengthU32(num_subcarriers, cyclic_prefix_length, checks) ==
    LET exact == WideAdd(WideAdd(num_subcarriers, num_subcarriers), cyclic_prefix_length)
    IN [panicked |-> checks /\ ~Fits32(exact), value |-> Wrap32(exact)]

\* 2 * config.num_subcarriers as usize: the cast comes first, the product
\* is a usize.
PlanFftForwardLen(num_subcarriers) == WideAdd(num_subcarriers, num_subcarriers)

----------------------------------------------------------------------------
(* OFDMDemodulator *)

NoFft == [injected |-> FALSE, len |-> 0]
InjectedFft(len) == [injected |-> TRUE, len |-> len]

\* OFDMDemodulator::new
New(cfg) ==
    LET qam_modem == [order |-> cfg.qam_order]
        constants == OFDMConstantsNew(cfg.num_subcarriers, cfg.pilot_subcarrier_every,
                         cfg.cyclic_prefix_length, cfg.qam_order,
                         BitsPerSymbol(qam_modem.order))
        fft == IF cfg.fft.injected THEN [len |-> ToWide(cfg.fft.len)]
               ELSE [len |-> PlanFftForwardLen(ToWide(cfg.num_subcarriers))]
    IN [fft |-> fft, qam_modem |-> qam_modem, constants |-> constants]

\* OFDMDemodulator::get_symbol_length
GetSymbolLength(self, checks) ==
    SymbolLengthU32(ToWide(self.constants.num_subcarriers),
                    ToWide(self.constants.cyclic_prefix_length), checks)

\* &input[cyclic_prefix_length..] cloned into a buffer of 2 * num_subcarriers.
RemoveCyclicPrefix(self, input) ==
    SubSeq(input, self.constants.cyclic_prefix_length + 1, Len(input))

\* RealToComplex::make_output_vec: len / 2 + 1 bins.
MakeOutputVecLen(fft) == (fft.len[1] * 65536 + fft.len[2]) \div 2 + 1

\* Fault variant of process: an engine that takes a buffer of any length.
FftAcceptsAny(fft, input_no_cp) == TRUE

\* RealToComplex::process: Err unless the input holds exactly len samples.
FftAccepts(fft, input_no_cp) == ToWide(Len(input_no_cp)) = fft.len

\* max_value = fold(0.0, f32::max) of the norms, squared.
MaxNormSqr(output_buffer, d) ==
    MaxOf([k \in 1..Len(output_buffer) |-> NormSqr(output_buffer[k], d)], Zero, d)

\* The equalisation target: the magnitude the strongest bin is scaled to.
EqualizeTarget == 3

\* The f32 range in sample units: a magnitude of F32MaxUnits or more is inf.
F32MaxUnits == 1024

\* A bin component (half units) that the transform delivers as +-inf, and
\* max_value = inf: c.norm() is inf for a bin whose norm leaves the range.
\* The fixed-point doc test stays far inside the range.
ComponentIsInf(x, d) ==
    d # 1 /\ ~Gt(Whole(4 * F32MaxUnits * F32MaxUnits), Mul(x, x, d), d)
MaxIsInf(max2, d) ==
    d # 1 /\ ~Gt(Whole(4 * F32MaxUnits * F32MaxUnits), max2, d)

\* Equalised values that are no ratio of finite numbers: inf / inf is NaN
\* (0 * 0 / sqrt 0: every comparison with it is false), finite / inf is 0.
NaN == [num |-> Zero, mul |-> 0, div2 |-> Zero]
OverInf == [num |-> Zero, mul |-> 1, div2 |-> <<4, 0>>]

\* One component after *value /= max_value / 3.0 (max_value > 0.0): inf / 3.0
\* is inf, so with max_value = inf an infinite component becomes NaN and a
\* finite one 0; otherwise the component times 3 / max_value.
EqualizeComponent(x, max2, d) ==
    IF MaxIsInf(max2, d)
    THEN IF ComponentIsInf(x, d) THEN NaN ELSE OverInf
    ELSE [num |-> x, mul |-> EqualizeTarget, div2 |-> max2]

\* One bin after the equalisation step: *value /= max_value / 3.0 when
\* max_value > 0.0, untouched otherwise (a half-unit pair is its value
\* times sqrt 4).
EqualizeBin(c, max2, d) ==
    IF IsPos(max2, d)
    THEN [re |-> EqualizeComponent(c.re, max2, d),
          im |-> EqualizeComponent(c.im, max2, d)]
    ELSE [re |-> [num |-> c.re, mul |-> 1, div2 |-> <<4, 0>>],
          im |-> [num |-> c.im, mul |-> 1, div2 |-> <<4, 0>>]]
Equalize(output_buffer, d) ==
    LET max2 == MaxNormSqr(output_buffer, d)
    IN [k \in 1..Len(output_buffer) |-> EqualizeBin(output_buffer[k], max2, d)]

\* output_symbols[i] = output_buffer[idx] for the data subcarrier indices.
ExtractDataSubcarriers(self, output_buffer) ==
    [i \in 1..Len(self.constants.data_subcarrier_indices) |->
        output_buffer[self.constants.data_subcarrier_indices[i] + 1]]
IndicesInRange(self, output_len) ==
    \A i \in 1..Len(self.constants.data_subcarrier_indices) :
        self.constants.data_subcarrier_indices[i] < output_len

NoLocals ==
    [input_no_cp |-> <<>>, output_len |-> 0, spectrum |-> <<>>,
     output_buffer |-> <<>>, output_symbols |-> <<>>]

\* OFDMDemodulator::demodulate_ofdm_symbol: the locals it builds, the
\* stages it ran and how it ended.
DemodulateOfdmSymbol(self, input) ==
    LET N == self.constants.num_subcarriers
        d == Root(N)
        input_no_cp == RemoveCyclicPrefix(self, input)
        output_len == MakeOutputVecLen(self.fft)
    IN IF self.constants.cyclic_prefix_length > Len(input) \/ Len(input_no_cp) # 2 * N
       THEN [outcome |-> "panic_slice", stages |-> <<"remove_cp">>, locals |-> NoLocals]
       ELSE IF ~FftAccepts(self.fft, input_no_cp)
       THEN [outcome |-> "panic_fft", stages |-> <<"remove_cp", "transform">>,
             locals |-> [NoLocals EXCEPT !.input_no_cp = input_no_cp,
                                         !.output_len = output_len]]
       ELSE LET spectrum == ForwardTransform(input_no_cp, Len(input_no_cp) \div 2)
                output_buffer == Equalize(spectrum, d)
            IN IF ~IndicesInRange(self, output_len)
               THEN [outcome |-> "panic_index",
                     stages |-> <<"remove_cp", "transform", "equalize", "extract">>,
                     locals |-> [NoLocals EXCEPT !.input_no_cp = input_no_cp,
                                    !.output_len = output_len, !.spectrum = spectrum,
                                    !.output_buffer = output_buffer]]
               ELSE [outcome |-> "ok",
                     stages |-> <<"remove_cp", "transform", "equalize", "extract">>,
                     locals |-> [input_no_cp |-> input_no_cp, output_len |-> output_len,
                                 spectrum |-> spectrum, output_buffer |-> output_buffer,
                                 output_symbols |->
                                     ExtractDataSubcarriers(self, output_buffer)]]

\* Fault variant of demodulate_symbol_from_buffer: no length check.
DemodulateSymbolFromBufferUnchecked(self, input, checks) ==
    LET r == DemodulateOfdmSymbol(self, input)
    IN IF r.outcome # "ok"
       THEN [input |-> input, outcome |-> r.outcome, stages |-> r.stages,
             locals |-> r.locals, returned |-> <<>>]
       ELSE [input |-> input, outcome |-> "ok", stages |-> r.stages \o <<"qam">>,
             locals |-> r.locals,
             returned |-> QamDemodulate(r.locals.output_symbols, self.qam_modem.order,
                             Root(self.constants.num_subcarriers))]

\* OFDMDemodulator::demodulate_symbol_from_buffer
DemodulateSymbolFromBuffer(self, input, checks) ==
    LET expected == GetSymbolLength(self, checks)
    IN IF expected.panicked
       THEN [input |-> input, outcome |-> "panic_overflow", stages |-> <<>>,
             locals |-> NoLocals, returned |-> <<>>]
       ELSE IF ToWide(Len(input)) # expected.value
       THEN [input |-> input, outcome |-> "panic_length", stages |-> <<"length_check">>,
             locals |-> NoLocals, returned |-> <<>>]
       ELSE LET r == DemodulateOfdmSymbol(self, input)
            IN IF r.outcome # "ok"
               THEN [input |-> input, outcome |-> r.outcome,
                     stages |-> <<"length_check">> \o r.stages,
                     locals |-> r.locals, returned |-> <<>>]
               ELSE [input |-> input, outcome |-> "ok",
                     stages |-> <<"length_check">> \o r.stages \o <<"qam">>,
                     locals |-> r.locals,
                     returned |-> QamDemodulate(r.locals.output_symbols,
                                     self.qam_modem.order,
                                     Root(self.constants.num_subcarriers))]

----------------------------------------------------------------------------
(* OFDMModulator::modulate_buffer_as_symbol *)

PilotValue == [re |-> 1, im |-> 0]

\* Bytes that fill the data subcarriers of one symbol.
DataCapacity(constants) ==
    (Len(constants.data_subcarrier_indices) * constants.bits_per_symbol) \div 8
FillsExactly(constants) ==
    (Len(constants.data_subcarrier_indices) * constants.bits_per_symbol) % 8 = 0

IndexOf(s, v) == CHOOSE i \in 1..Len(s) : s[i] = v
InSeq(s, v) == \E i \in 1..Len(s) : s[i] = v

\* QAM points on the data bins, the pilot value on the pilot bins, zero
\* elsewhere; inverse transform; the last cyclic_prefix_length samples
\* prepended.
SymbolSpectrum(constants, bytes) ==
    LET points == QamModulate(bytes, constants.qam_order)
    IN [k \in 1..(constants.num_subcarriers + 1) |->
           IF InSeq(constants.data_subcarrier_indices, k - 1)
           THEN points[IndexOf(constants.data_subcarrier_indices, k - 1)]
           ELSE IF InSeq(constants.pilot_subcarrier_indices, k - 1)
           THEN PilotValue
           ELSE [re |-> 0, im |-> 0]]
ModulateBufferAsSymbol(constants, bytes) ==
    LET N == constants.num_subcarriers
        x == InverseTransform(SymbolSpectrum(constants, bytes), N)
    IN SubSeq(x, 2 * N - constants.cyclic_prefix_length + 1, 2 * N) \o x

----------------------------------------------------------------------------
(* Configurations and input buffers *)

FftChoices(N) == {NoFft, InjectedFft(2 * N), InjectedFft(2 * N + 2)}

Configs ==
    UNION {[num_subcarriers : {N}, cyclic_prefix_length : 0..MaxCyclicPrefix,
            pilot_subcarrier_every : 1..MaxPilotEvery, qam_order : QAMOrders,
            fft : FftChoices(N)] : N \in SubcarrierChoices}

ConstBuffer(len, v) == [n \in 1..len |-> Whole(v)]
ScaleBuffer(g, x) == [n \in 1..Len(x) |-> Scale(g, x[n])]

\* Length of one symbol for small configurations.
SymLen(cfg) == 2 * cfg.num_subcarriers + cfg.cyclic_prefix_length

\* Buffers of every length but the symbol length.
WrongLengthBuffers(cfg) ==
    {ConstBuffer(len, 1) : len \in (0..(SymLen(cfg) + MaxExtraLength)) \ {SymLen(cfg)}}

\* Buffers of the symbol length: silence, and a sample a at p next to a
\* sample b at p + 1.
PairBuffers(cfg) ==
    {ConstBuffer(SymLen(cfg), 0)} \cup
    {[n \in 1..SymLen(cfg) |->
         IF n = p THEN Whole(a) ELSE IF n = p + 1 THEN Whole(b) ELSE Zero] :
       p \in 1..SymLen(cfg), a \in 1..MaxSample, b \in (0 - MaxSample)..MaxSample}

\* Payloads of exactly one symbol's data capacity.
Payloads(constants) ==
    IF FillsExactly(constants)
          /\ constants.cyclic_prefix_length <= 2 * constants.num_subcarriers
    THEN [1..DataCapacity(constants) -> DataBytes]
    ELSE {}

NoCall ==
    [input |-> <<>>, outcome |-> "none", stages |-> <<>>, locals |-> NoLocals,
     returned |-> <<>>, modulated |-> FALSE, sent |-> <<>>, base |-> <<>>, gain |-> 1]

\* Fault variant of the call: it uses up the instance's data index list.
SelfAfterCallDrained(self, result) ==
    [self EXCEPT !.constants.data_subcarrier_indices = <<>>]

\* &self: a call reads the instance and leaves it as it is.
SelfAfterCall(self, result) == self

\* The call's record: what the handler did, and where its input came from
\* (the payload it is the modulation of; the buffer it is gain times).
WithPayload(result, modulated, sent, base, gain) ==
    [input |-> result.input, outcome |-> result.outcome, stages |-> result.stages,
     locals |-> result.locals, returned |-> result.returned,
     modulated |-> modulated, sent |-> sent, base |-> base, gain |-> gain]

----------------------------------------------------------------------------
(* The doc test of demodulate_symbol_from_buffer *)

\* The config of the doc test.
DocTestConfig ==
    [num_subcarriers |-> DocTestSubcarriers, cyclic_prefix_length |-> 4,
     pilot_subcarrier_every |-> 4, qam_order |-> "QAM16", fft |-> NoFft]

\* The 132 samples of the doc test's input, in tenths, rounded.
DocTestTenths ==
    <<
       16, 108, -604, -220, 1700, -424, 547, 224, 62, -50, 224, 179,
       -29, -230, -114, 0, -31, -77, 30, 213, 8, -357, -331, -199,
       -1, -10, 11, 14, 10, -70, 22, 154, 211, 1, -12, -34,
       -20, 411, -41, 5, -2, 66, -113, -48, -33, 61, -60, 175,
       339, 569, 103, 263, -218, -459, 162, -120, -54, -101, 129, 51,
       76, -30, 58, -83, -68, -99, 264, 192, -60, -4, -443, -325,
       -115, -64, -143, -141, 45, 32, -97, -322, -188, -238, -130, -657,
       -48, 680, 262, 380, 140, 159, -132, -184, -107, 229, 193, -57,
       -238, -9, 273, 62, -420, 17, -143, 97, -25, 47, -49, 10,
       -64, 137, 190, 147, -201, -254, -83, 180, 178, 137, -174, -62,
       -164, -48, -88, 120, -59, -129, -352, -13, 16, 108, -604, -220
    >>
DocTestInput == [n \in 1..Len(DocTestTenths) |-> Whole(DocTestTenths[n])]

\* The bytes the doc test expects: "Hello, OFDM!" and twelve spaces.
DocTestExpected ==
    <<72, 101, 108, 108, 111, 44, 32, 79, 70, 68, 77, 33,
      32, 32, 32, 32, 32, 32, 32, 32, 32, 32, 32, 32>>

----------------------------------------------------------------------------
(* One demodulator, called again and again *)

NoSymLen ==
    [num_subcarriers |-> <<0, 0>>, cyclic_prefix_length |-> <<0, 0>>, asked |-> FALSE,
     answer |-> [panicked |-> FALSE, value |-> <<0, 0>>], plan_len |-> <<0, 0>>]

Init ==
    /\ config \in Configs
    /\ demod = New(config)
    /\ phase = "idle"
    /\ calls = 0
    /\ call = NoCall
    /\ build = TRUE
    /\ symlen = NoSymLen
    /\ thr = <<>>
    /\ heap = <<>>

\* demodulate_symbol_from_buffer on a buffer of the caller.
DemodulateBuffer ==
    /\ phase = "idle"
    /\ calls < MaxCalls
    /\ \E input \in WrongLengthBuffers(config) \cup PairBuffers(config) :
          LET result == DemodulateSymbolFromBuffer(demod, input, build)
          IN /\ call' = WithPayload(result, FALSE, <<>>, input, 1)
             /\ demod' = SelfAfterCall(demod, result)
    /\ phase' = "returned"
    /\ calls' = calls + 1
    /\ UNCHANGED <<config, build, symlen, thr, heap>>

\* demodulate_symbol_from_buffer on the noiseless output of a modulator of
\* the same configuration.
DemodulateModulated ==
    /\ phase = "idle"
    /\ calls < MaxCalls
    /\ \E sent \in Payloads(demod.constants) :
          LET input == ModulateBufferAsSymbol(demod.constants, sent)
              result == DemodulateSymbolFromBuffer(demod, input, build)
          IN /\ call' = WithPayload(result, TRUE, sent, input, 1)
             /\ demod' = SelfAfterCall(demod, result)
    /\ phase' = "returned"
    /\ calls' = calls + 1
    /\ UNCHANGED <<config, build, symlen, thr, heap>>

\* The caller takes the bytes (or catches the panic); the buffers of the
\* call are dropped.
Return ==
    /\ phase = "returned"
    /\ phase' = "idle"
    /\ call' = NoCall
    /\ UNCHANGED <<config, demod, calls, build, symlen, thr, heap>>

Next == DemodulateBuffer \/ DemodulateModulated \/ Return

Spec == Init /\ [][Next]_vars

----------------------------------------------------------------------------
(* Construction: the layout of every small configuration and of the doc test *)

LayoutConfigs ==
    [num_subcarriers : 0..MaxLayoutSubcarriers, cyclic_prefix_length : 0..MaxCyclicPrefix,
     pilot_subcarrier_every : 1..MaxPilotEvery, qam_order : QAMOrders, fft : {NoFft}]
    \cup {DocTestConfig}

NoDemod ==
    [fft |-> [len |-> <<0, 0>>], qam_modem |-> [order |-> "none"],
     constants |-> OFDMConstantsNew(0, 1, 0, "none", 0)]

InitLayout ==
    /\ config \in LayoutConfigs
    /\ demod = NoDemod
    /\ phase = "config"
    /\ calls = 0
    /\ call = NoCall
    /\ build = TRUE
    /\ symlen = NoSymLen
    /\ thr = <<>>
    /\ heap = <<>>

\* OFDMDemodulator::new(config)
Construct ==
    /\ phase = "config"
    /\ demod' = New(config)
    /\ phase' = "idle"
    /\ UNCHANGED <<config, calls, call, build, symlen, thr, heap>>

\* demodulator.get_symbol_length() on the instance
AskLength ==
    /\ phase = "idle"
    /\ ~symlen.asked
    /\ symlen' = [num_subcarriers |-> ToWide(demod.constants.num_subcarriers),
                  cyclic_prefix_length |-> ToWide(demod.constants.cyclic_prefix_length),
                  asked |-> TRUE, answer |-> GetSymbolLength(demod, build),
                  plan_len |-> demod.fft.len]
    /\ UNCHANGED <<config, demod, phase, calls, call, build, thr, heap>>

\* The doc test: demodulate_symbol_from_buffer on its input.
DemodulateDocTest ==
    /\ phase = "idle"
    /\ config = DocTestConfig
    /\ LET result == DemodulateSymbolFromBuffer(demod, DocTestInput, build)
       IN /\ call' = WithPayload(result, FALSE, <<>>, DocTestInput, 1)
          /\ demod' = SelfAfterCall(demod, result)
    /\ phase' = "returned"
    /\ calls' = calls + 1
    /\ UNCHANGED <<config, build, symlen, thr, heap>>

NextLayout == Construct \/ AskLength \/ DemodulateDocTest

SpecLayout == InitLayout /\ [][NextLayout]_vars

----------------------------------------------------------------------------
(* get_symbol_length over the whole range of u32 *)

\* u32 values around the places where 2 * n + cp passes 2^16, 2^31, 2^32.
U32Samples ==
    { <<0, 0>>, <<0, 1>>, <<0, 2>>, <<0, 64>>, <<0, 65535>>, <<1, 0>>,
      <<16384, 0>>, <<32767, 65535>>, <<32768, 0>>, <<49152, 0>>,
      <<65535, 65534>>, <<65535, 65535>> }

InitLen ==
    /\ \E n \in U32Samples, cp \in U32Samples :
          symlen = [NoSymLen EXCEPT !.num_subcarriers = n, !.cyclic_prefix_length = cp]
    /\ build \in BOOLEAN
    /\ config = [num_subcarriers |-> 0, cyclic_prefix_length |-> 0,
                 pilot_subcarrier_every |-> 1, qam_order |-> "none", fft |-> NoFft]
    /\ demod = NoDemod
    /\ phase = "config"
    /\ calls = 0
    /\ call = NoCall
    /\ thr = <<>>
    /\ heap = <<>>

\* new() plans the default transform; get_symbol_length() is asked.
AskSymbolLength ==
    /\ ~symlen.asked
    /\ symlen' = [symlen EXCEPT
                    !.asked = TRUE,
                    !.answer = SymbolLengthU32(symlen.num_subcarriers,
                                   symlen.cyclic_prefix_length, build),
                    !.plan_len = PlanFftForwardLen(symlen.num_subcarriers)]
    /\ UNCHANGED <<config, demod, phase, calls, call, build, thr, heap>>

NextLen == AskSymbolLength

SpecLen == InitLen /\ [][NextLen]_vars

----------------------------------------------------------------------------
(* One call on a buffer received with a gain *)

GainConfigs == {cfg \in Configs : ~cfg.fft.injected}

InitGain ==
    /\ config \in GainConfigs
    /\ demod = New(config)
    /\ phase = "idle"
    /\ calls = 0
    /\ call = NoCall
    /\ build = TRUE
    /\ symlen = NoSymLen
    /\ thr = <<>>
    /\ heap = <<>>

ModulatedBuffers(constants) ==
    {ModulateBufferAsSymbol(constants, sent) : sent \in Payloads(constants)}

\* A gain that lifts a unit sample to half the f32 range.
HugeGain == F32MaxUnits \div 2
Gains == (1..MaxGain) \cup {HugeGain}

\* Every sample of the buffer is a finite f32.
IsFiniteBuffer(x, d) ==
    \A n \in 1..Len(x) :
        Gt(Whole(F32MaxUnits * F32MaxUnits), Mul(x[n], x[n], d), d)

\* demodulate_symbol_from_buffer on gain times a buffer of finite samples.
DemodulateScaled ==
    /\ phase = "idle"
    /\ \E base \in PairBuffers(config) \cup ModulatedBuffers(demod.constants),
          gain \in Gains :
          /\ IsFiniteBuffer(ScaleBuffer(gain, base), Root(config.num_subcarriers))
          /\ LET result == DemodulateSymbolFromBuffer(demod, ScaleBuffer(gain, base), build)
             IN /\ call' = WithPayload(result, FALSE, <<>>, base, gain)
                /\ demod' = SelfAfterCall(demod, result)
    /\ phase' = "returned"
    /\ calls' = calls + 1
    /\ UNCHANGED <<config, build, symlen, thr, heap>>

NextGain == DemodulateScaled

SpecGain == InitGain /\ [][NextGain]_vars

----------------------------------------------------------------------------
(* Two demodulators on two threads, sharing one injected transform engine *)

Threads == {1, 2}

\* Fault variant: one prefix-stripped copy kept for all calls.
InputNoCpAllocShared(t) == 1

\* The Vec each call allocates: the prefix-stripped copy of the input
\* (vec![0.0; 2 * num_subcarriers]) and the output of make_output_vec().
InputNoCpAlloc(t) == 2 * t - 1
OutputAlloc(t) == 2 * t
Allocs == 1..4

ConcSubcarriers == {3, 4}

ConcConfig(N, cp, engine) ==
    [num_subcarriers |-> N, cyclic_prefix_length |-> cp, pilot_subcarrier_every |-> 3,
     qam_order |-> "QAM16", fft |-> InjectedFft(2 * engine)]

\* Thread 1's instance matches the engine; thread 2's may not.
ConcConfigPairs ==
    {<<ConcConfig(engine, cp, engine), ConcConfig(N, 1, engine)>> :
        engine \in ConcSubcarriers, cp \in 0..1, N \in ConcSubcarriers}

ConcInputs(cfg) ==
    {ConstBuffer(SymLen(cfg), 0), ConstBuffer(SymLen(cfg) + 1, 1)}
        \cup {ModulateBufferAsSymbol(New(cfg).constants, <<b>>) : b \in {33, 111}}

IdleThread(cfg) ==
    [pc |-> "idle", cfg |-> cfg, self |-> New(cfg), input |-> <<>>,
     output_symbols |-> <<>>, returned |-> <<>>]

InitConc ==
    /\ \E pair \in ConcConfigPairs : thr = [t \in Threads |-> IdleThread(pair[t])]
    /\ heap = [a \in Allocs |-> <<>>]
    /\ build = TRUE
    /\ config = [num_subcarriers |-> 0, cyclic_prefix_length |-> 0,
                 pilot_subcarrier_every |-> 1, qam_order |-> "none", fft |-> NoFft]
    /\ demod = NoDemod
    /\ phase = "config"
    /\ calls = 0
    /\ call = NoCall
    /\ symlen = NoSymLen

Rest == <<config, demod, phase, calls, call, build, symlen>>

\* The caller on thread t hands a buffer to demodulate_symbol_from_buffer.
StartCall(t) ==
    /\ thr[t].pc = "idle"
    /\ \E input \in ConcInputs(thr[t].cfg) :
          thr' = [thr EXCEPT ![t].pc = "check", ![t].input = input]
    /\ UNCHANGED <<heap, Rest>>

\* if input_buffer.len() != self.get_symbol_length() { panic!(..) }
CheckLength(t) ==
    /\ thr[t].pc = "check"
    /\ thr' = [thr EXCEPT ![t].pc =
                 IF ToWide(Len(thr[t].input)) # GetSymbolLength(thr[t].self, build).value
                 THEN "panicked" ELSE "strip"]
    /\ UNCHANGED <<heap, Rest>>

\* input_no_cp.clone_from_slice(&input[cyclic_prefix_length..])
StripPrefix(t) ==
    /\ thr[t].pc = "strip"
    /\ heap' = [heap EXCEPT ![InputNoCpAlloc(t)] = RemoveCyclicPrefix(thr[t].self, thr[t].input)]
    /\ thr' = [thr EXCEPT ![t].pc = "alloc"]
    /\ UNCHANGED Rest

\* let mut output_buffer = self.fft.make_output_vec()
AllocOutput(t) ==
    /\ thr[t].pc = "alloc"
    /\ heap' = [heap EXCEPT ![OutputAlloc(t)] =
                  [k \in 1..MakeOutputVecLen(thr[t].self.fft) |-> [re |-> Zero, im |-> Zero]]]
    /\ thr' = [thr EXCEPT ![t].pc = "transform"]
    /\ UNCHANGED Rest

\* self.fft.process(&mut input_no_cp, &mut output_buffer).unwrap()
Transform(t) ==
    /\ thr[t].pc = "transform"
    /\ LET input_no_cp == heap[InputNoCpAlloc(t)]
       IN IF FftAccepts(thr[t].self.fft, input_no_cp)
          THEN /\ heap' = [heap EXCEPT ![OutputAlloc(t)] =
                             ForwardTransform(input_no_cp, Len(input_no_cp) \div 2)]
               /\ thr' = [thr EXCEPT ![t].pc = "equalize"]
          ELSE /\ heap' = heap
               /\ thr' = [thr EXCEPT ![t].pc = "panicked"]
    /\ UNCHANGED Rest

\* the equalisation loop over output_buffer
EqualizeStep(t) ==
    /\ thr[t].pc = "equalize"
    /\ heap' = [heap EXCEPT ![OutputAlloc(t)] =
                  Equalize(heap[OutputAlloc(t)], Root(thr[t].self.constants.num_subcarriers))]
    /\ thr' = [thr EXCEPT ![t].pc = "extract"]
    /\ UNCHANGED Rest

\* the extraction loop over data_subcarrier_indices
ExtractStep(t) ==
    /\ thr[t].pc = "extract"
    /\ thr' = [thr EXCEPT ![t].pc = "qam",
                          ![t].output_symbols =
                              ExtractDataSubcarriers(thr[t].self, heap[OutputAlloc(t)])]
    /\ UNCHANGED <<heap, Rest>>

\* self.qam_modem.demodulate(&demodulated_symbol); the Vecs of the call drop
QamStep(t) ==
    /\ thr[t].pc = "qam"
    /\ thr' = [thr EXCEPT ![t].pc = "done",
                          ![t].returned =
                              QamDemodulate(thr[t].output_symbols, thr[t].self.qam_modem.order,
                                  Root(thr[t].self.constants.num_subcarriers))]
    /\ UNCHANGED <<heap, Rest>>

NextConc ==
    \E t \in Threads :
        \/ StartCall(t) \/ CheckLength(t) \/ StripPrefix(t) \/ AllocOutput(t)
        \/ Transform(t) \/ EqualizeStep(t) \/ ExtractStep(t) \/ QamStep(t)

SpecConc == InitConc /\ [][NextConc]_vars

----------------------------------------------------------------------------
(* Properties *)

Range(s) == {s[i] : i \in 1..Len(s)}
StrictlyAscending(s) == \A i \in 1..(Len(s) - 1) : s[i] < s[i + 1]
Returned == phase = "returned"
LengthMatches == ToWide(Len(call.input)) = GetSymbolLength(demod, build).value
EngineMatches == demod.fft.len = ToWide(2 * demod.constants.num_subcarriers)
Ran(stage) == \E i \in 1..Len(call.stages) : call.stages[i] = stage

\* C1: demodulating the noiseless output of a modulator of the same
\* configuration returns exactly the payload, whatever its bytes are.
C1_RoundTripIdentity ==
    (Returned /\ call.modulated /\ EngineMatches)
        => (call.outcome = "ok" /\ call.returned = call.sent)

\* C2: a buffer whose length differs from get_symbol_length() panics at the
\* length check, before any other stage runs and with nothing returned; a
\* buffer of exactly that length never fails the length check.
C2_LengthPrecondition ==
    Returned =>
        /\ ~LengthMatches =>
              /\ call.outcome = "panic_length"
              /\ call.stages = <<"length_check">>
              /\ call.locals = NoLocals
              /\ call.returned = <<>>
        /\ LengthMatches => call.outcome # "panic_length"

C2_Witness ==
    /\ Returned
    /\ call.outcome = "panic_length"
    /\ Len(call.input) = SymLen(config) + 1
    /\ config.num_subcarriers >= 3

\* C3: get_symbol_length() returns exactly 2 * num_subcarriers +
\* cyclic_prefix_length for all u32 values of the two, which is the cyclic
\* prefix plus the size of the default transform plan.
C3_SymbolLengthExact ==
    symlen.asked =>
        LET exact == WideAdd(WideAdd(symlen.num_subcarriers, symlen.num_subcarriers),
                             symlen.cyclic_prefix_length)
        IN /\ ~symlen.answer.panicked
           /\ symlen.answer.value = exact
           /\ exact = WideAdd(symlen.plan_len, symlen.cyclic_prefix_length)

\* The doc test's call has returned.
DocTestReturned == Returned /\ config = DocTestConfig /\ call.input = DocTestInput

Dist(a, b) == IF a >= b THEN a - b ELSE b - a

\* The transform of the doc test's input against the spectrum the layout
\* puts together for the expected bytes: the input has 128 samples and its
\* bins are in twentieths, so a level of 1 is 2560; every bin of 0..64 is
\* within 64 of it, that is within a fortieth of a level.
DocTestSpectrumAgrees ==
    LET X == SymbolSpectrum(demod.constants, DocTestExpected)
        spectrum == call.locals.spectrum
    IN /\ Len(spectrum) = Len(X)
       /\ \A k \in 1..Len(X) :
             /\ Dist(spectrum[k].re[1], 2560 * X[k].re) <= 64
             /\ Dist(spectrum[k].im[1], 2560 * X[k].im) <= 64

\* C4 as claimed, for an instance that has demodulated a symbol: the guard
\* indices are exactly 0 and num_subcarriers-1, the pilots and the data
\* indices share the rest, the data list is ascending and holds
\* num_subcarriers - 2 - pilotCount indices, and constructing again from the
\* same configuration gives the same lists.
C4_LayoutAsClaimed ==
    (Returned /\ call.outcome = "ok" /\ config.num_subcarriers >= 3) =>
        LET N == config.num_subcarriers
            data == demod.constants.data_subcarrier_indices
            pilots == demod.constants.pilot_subcarrier_indices
        IN /\ {0, N - 1} \cup Range(pilots) \cup Range(data) = 0..(N - 1)
           /\ {0, N - 1} \cap (Range(pilots) \cup Range(data)) = {}
           /\ Range(pilots) \cap Range(data) = {}
           /\ StrictlyAscending(data)
           /\ Len(data) = N - 2 - Len(pilots)
           /\ New(config).constants = demod.constants

\* The doc test's input carries a constellation point at bin 63 = 64 - 1:
\* its transform agrees bin by bin with the symbol whose data indices
\* include 63, and bin 63 is no guard of that symbol.
C4_DocTestLayout ==
    /\ DocTestReturned
    /\ call.outcome = "ok"
    /\ DocTestSpectrumAgrees
    /\ DocTestSubcarriers - 1 \in Range(demod.constants.data_subcarrier_indices)
    /\ Dist(call.locals.spectrum[DocTestSubcarriers].re[1], 0) > 2000
    /\ Dist(call.locals.spectrum[DocTestSubcarriers].im[1], 0) > 2000

\* The data indices as C5 states the rule: 0 and num_subcarriers-1 guard,
\* every pilot_subcarrier_every-th of the rest pilot.
ClaimedDataIndices(num_subcarriers, every) ==
    SelectSeq([i \in 1..(num_subcarriers - 2) |-> i], LAMBDA i : i % every # 0)

\* C5 as claimed: a successful call returns dataIndices.len() *
\* bitsPerSymbol / 8 bytes, rounded down, with dataIndices by the rule that
\* 0 and num_subcarriers-1 are guards; 24 bytes for 64 subcarriers, a pilot
\* every 4th and 16-QAM.
C5_PayloadSizeAsClaimed ==
    (Returned /\ call.outcome = "ok") =>
        /\ Len(call.returned) =
              (Len(ClaimedDataIndices(config.num_subcarriers, config.pilot_subcarrier_every))
                  * BitsPerSymbol(config.qam_order)) \div 8
        /\ config = DocTestConfig => Len(call.returned) = 24

\* The doc test's call returns the 24 bytes the doc test asserts.
C5_DocTestBytes ==
    /\ DocTestReturned
    /\ call.outcome = "ok"
    /\ call.returned = DocTestExpected
    /\ Len(call.returned) = 24

\* The bins a call equalised, the largest squared magnitude among the bins
\* it transformed, and squared magnitudes after scaling against the square
\* of the target.
Untouched(x) == [num |-> x, mul |-> 1, div2 |-> <<4, 0>>]
ScaledBy(x, max2) == [num |-> x, mul |-> EqualizeTarget, div2 |-> max2]
CallRoot == Root(demod.constants.num_subcarriers)
CallMax2 == MaxNormSqr(call.locals.spectrum, CallRoot)
ScaledNormSqr(e) ==
    Scale(e.re.mul * e.re.mul, NormSqr([re |-> e.re.num, im |-> e.im.num], CallRoot))
TargetNormSqr(e) == Scale(EqualizeTarget * EqualizeTarget, e.re.div2)

\* C6: with all bins at magnitude zero the equalisation leaves every bin as
\* it is, divides nothing, and the call still returns bytes; with a positive
\* maximum every one of the N+1 bins is multiplied by 3/max, so that no bin
\* exceeds magnitude 3 and the largest has exactly 3.
C6_Equalization ==
    (Returned /\ Ran("equalize")) =>
        LET spectrum == call.locals.spectrum
            eq == call.locals.output_buffer
        IN /\ Len(eq) = Len(spectrum)
           /\ Len(eq) = demod.constants.num_subcarriers + 1
           /\ CallMax2 = Zero =>
                 /\ \A k \in 1..Len(eq) :
                       /\ eq[k].re = Untouched(spectrum[k].re)
                       /\ eq[k].im = Untouched(spectrum[k].im)
                 /\ call.outcome = "ok"
                 /\ Len(call.returned) =
                       PackedLength(Len(demod.constants.data_subcarrier_indices)
                                       * BitsPerSymbol(config.qam_order))
           /\ CallMax2 # Zero =>
                 /\ IsPos(CallMax2, CallRoot)
                 /\ \A k \in 1..Len(eq) :
                       /\ eq[k].re = ScaledBy(spectrum[k].re, CallMax2)
                       /\ eq[k].im = ScaledBy(spectrum[k].im, CallMax2)
                       /\ ~Gt(ScaledNormSqr(eq[k]), TargetNormSqr(eq[k]), CallRoot)
                 /\ \E k \in 1..Len(eq) : ScaledNormSqr(eq[k]) = TargetNormSqr(eq[k])

\* A call on finite samples whose strongest bin leaves the f32 range:
\* max_value is inf and no bin comes out at magnitude 3.
C6_Overflow ==
    /\ Returned
    /\ call.outcome = "ok"
    /\ IsFiniteBuffer(call.input, CallRoot)
    /\ MaxIsInf(CallMax2, CallRoot)
    /\ \A k \in 1..Len(call.locals.output_buffer) :
          /\ call.locals.output_buffer[k].re \in {NaN, OverInf}
          /\ call.locals.output_buffer[k].im \in {NaN, OverInf}

\* C7: a call leaves the instance as construction made it, and its result
\* is the one a freshly constructed instance of the same configuration
\* gives for the same buffer, however many calls came before.
C7_Stateless ==
    /\ demod = New(config)
    /\ Returned =>
          LET fresh == DemodulateSymbolFromBuffer(New(config), call.input, build)
          IN /\ call.outcome = fresh.outcome
             /\ call.returned = fresh.returned
             /\ call.locals = fresh.locals

C7_Witness ==
    /\ Returned
    /\ calls >= 2
    /\ call.outcome = "ok"
    /\ \E i \in 1..Len(call.returned) : call.returned[i] # 0

\* C8: calls that overlap on two threads, with instances sharing one
\* injected engine, each end as the same call made alone ends: same panic
\* or same bytes, same extracted symbols, instances untouched.
C8_ConcurrentCalls ==
    \A t \in Threads :
        LET alone == DemodulateSymbolFromBuffer(New(thr[t].cfg), thr[t].input, build)
        IN /\ thr[t].self = New(thr[t].cfg)
           /\ thr[t].pc = "qam" => thr[t].output_symbols = alone.locals.output_symbols
           /\ thr[t].pc = "done" =>
                 (alone.outcome = "ok" /\ thr[t].returned = alone.returned)
           /\ thr[t].pc = "panicked" =>
                 (alone.outcome \in {"panic_length", "panic_fft"} /\ thr[t].returned = <<>>)

C8_Witness ==
    /\ thr[1].pc = "qam"
    /\ thr[2].pc = "equalize"
    /\ thr[1].self.fft = thr[2].self.fft
    /\ thr[1].input # thr[2].input
    /\ thr[1].output_symbols # <<>>
    /\ heap[InputNoCpAlloc(1)] # heap[InputNoCpAlloc(2)]

\* C9: a buffer multiplied by a positive gain demodulates to the bytes of
\* the buffer itself.
C9_GainInvariance ==
    Returned =>
        LET plain == DemodulateSymbolFromBuffer(demod, call.base, build)
        IN /\ call.input = ScaleBuffer(call.gain, call.base)
           /\ call.outcome = plain.outcome
           /\ call.returned = plain.returned

\* A buffer and a gain, all samples finite before and after, whose bytes
\* differ: the gain takes the strongest bin out of the f32 range.
C9_Overflow ==
    /\ Returned
    /\ call.gain = HugeGain
    /\ call.outcome = "ok"
    /\ IsFiniteBuffer(call.base, CallRoot)
    /\ IsFiniteBuffer(call.input, CallRoot)
    /\ call.returned # DemodulateSymbolFromBuffer(demod, call.base, build).returned

\* C10: a buffer that passed the length check loses exactly its first
\* cyclic_prefix_length samples and 2 * num_subcarriers remain; an engine
\* of that size fills num_subcarriers + 1 bins, which every data index is
\* below; an engine of another size makes the call panic at the transform,
\* with no bin computed and no byte returned.
C10_TransformSize ==
    (Returned /\ LengthMatches) =>
        LET N == demod.constants.num_subcarriers
            locals == call.locals
        IN /\ Ran("transform")
           /\ locals.input_no_cp =
                 SubSeq(call.input, demod.constants.cyclic_prefix_length + 1, Len(call.input))
           /\ Len(locals.input_no_cp) = 2 * N
           /\ EngineMatches =>
                 /\ call.outcome = "ok"
                 /\ locals.output_len = N + 1
                 /\ Len(locals.spectrum) = N + 1
                 /\ \A i \in Range(demod.constants.data_subcarrier_indices) :
                       i < locals.output_len
           /\ ~EngineMatches =>
                 /\ call.outcome = "panic_fft"
                 /\ call.stages = <<"length_check", "remove_cp", "transform">>
                 /\ locals.spectrum = <<>>
                 /\ locals.output_symbols = <<>>
                 /\ call.returned = <<>>

C10_Witness ==
    /\ Returned
    /\ call.outcome = "panic_fft"
    /\ demod.fft.len = ToWide(2 * demod.constants.num_subcarriers + 2)
    /\ \E i \in 1..Len(call.input) : call.input[i] # Zero

====
